---- MODULE Spec2Model ----
(***************************************************************************)
(* Variational language learners of pfeyz/rust-learners (src/main.rs,      *)
(* src/colag.rs): the grammar codec, the reward update, the convergence    *)
(* test, the learning step consume_sentence, the simulation loop           *)
(* learn_language and the thread-per-target scheduler of main.             *)
(*                                                                         *)
(* Numbers.  A weight is an f64 in the source.  Here a weight is an        *)
(* integer count of units of 2^-FRAC_BITS (ONE = 1.0), and a product is    *)
(* rounded to the nearest unit, ties to even, as IEEE-754 rounds it.  Near *)
(* 1.0 an f64 is exactly such a grid (unit 2^-53), and near 0.0 too (the   *)
(* subnormals, unit 2^-1074).  The sizes of the source (13 parameters,     *)
(* 2,000,000 sentences, 100 runs, rate 0.001) are reduced to the bounds    *)
(* below so that whole trials, convergence included, are explored.         *)
(***************************************************************************)
EXTENDS Integers, Sequences, FiniteSets, TLC

----------------------------------------------------------------------------
(* Bounds of the model (reduced sizes of the source's constants).          *)

\* colag.rs:6 has 13 parameters.
NUM_PARAMS == 2
\* main.rs:17 has a budget of 2_000_000 sentences.
NUM_SENTENCES == 6
\* main.rs:226 runs 100 trials per target (RUNS_PER_LANGUAGE, main.rs:18).
RUNS_PER_LANGUAGE == 2
\* Fraction bits of a weight (an f64 below 1.0 has 53).
FRAC_BITS == 7
\* LEARNING_RATE is 1/LEARNING_RATE_INV; main.rs:20 has 0.001 = 1/1000.
LEARNING_RATE_INV == 2
\* Longest stream of sampled candidates handed to one consume_sentence call.
MaxSamples == 2

----------------------------------------------------------------------------
(* Fixed-point arithmetic standing for f64.                                *)

ONE == 2 ^ FRAC_BITS

\* n/d rounded to the nearest integer, ties to even (n >= 0, d > 0).
RoundDiv(n, d) ==
    LET q == n \div d
        r == n % d
    IN  IF 2 * r < d THEN q
        ELSE IF 2 * r > d THEN q + 1
        ELSE IF q % 2 = 0 THEN q ELSE q + 1

\* The f64 product a * b of two grid values.
Mul(a, b) == RoundDiv(a * b, ONE)

\* main.rs:20: const LEARNING_RATE: f64 = 0.001 (here 1/LEARNING_RATE_INV).
LEARNING_RATE == RoundDiv(ONE, LEARNING_RATE_INV)

\* main.rs:21: const THRESHOLD: f64 = 0.02, the nearest grid value to 2/100.
THRESHOLD == RoundDiv(2 * ONE, 100)

\* main.rs:53: the initial weight 0.5.
HALF == ONE \div 2

----------------------------------------------------------------------------
(* Types.                                                                  *)

\* main.rs:23: type Grammar = u16.
U16 == 65536

Params == 0 .. (NUM_PARAMS - 1)

\* Grammar identifiers with only the low NUM_PARAMS bits possibly set.
Grammars == 0 .. (2 ^ NUM_PARAMS - 1)

\* The identifier with every parameter bit set (0b1111111111111 in the source).
AllOnes == 2 ^ NUM_PARAMS - 1

\* Sentence identifiers used by the Domains below.
Sentences == {7, 8, 9}

----------------------------------------------------------------------------
(* Grammar codec (main.rs:168-184, 94-102).                                *)

\* Mutant of get_param: parameter 0 is read from the least significant bit.
GetParamFromLow(grammar, param_num) ==
    (grammar \div (2 ^ param_num)) % 2

\* main.rs:169-171: (grammar >> (NUM_PARAMS - param_num - 1)) & 1
get_param(grammar, param_num) ==
    (grammar \div (2 ^ (NUM_PARAMS - param_num - 1))) % 2

\* Mutant of set_param: parameter 0 is the least significant bit.
SetParamFromLow(grammar, param_num) ==
    (grammar + 2 ^ param_num) % U16

\* Mutant of set_param: the shift is one too long (the "- 1" is missing).
SetParamShiftedUp(grammar, param_num) ==
    (grammar + 2 ^ (NUM_PARAMS - param_num)) % U16

\* main.rs:174-176: grammar + (1 << (NUM_PARAMS - param_num - 1)), in u16
set_param(grammar, param_num) ==
    (grammar + 2 ^ (NUM_PARAMS - param_num - 1)) % U16

\* Mutant of weighted_coin_flip: the comparison is <= instead of <.
WeightedCoinFlipInclusive(weight) ==
    { sample <= weight : sample \in {0, ONE - 1} }

\* main.rs:179-184: the outcomes of range.sample(rng) < weight for a sample
\* of the half-open range [0, 1).  The comparison is monotone in the sample,
\* so the least and the greatest sample (0 and 1 - 2^-FRAC_BITS) yield every
\* outcome there is.
weighted_coin_flip(weight) ==
    { sample < weight : sample \in {0, ONE - 1} }

\* main.rs:94-102: the grammars the loop over the parameters can build,
\* from parameter param on, having built grammar so far.
RECURSIVE GrammarsFrom(_, _, _)
GrammarsFrom(weights, param, grammar) ==
    IF param = NUM_PARAMS THEN {grammar}
    ELSE UNION { GrammarsFrom(weights, param + 1,
                              IF flip THEN set_param(grammar, param) ELSE grammar)
                 : flip \in weighted_coin_flip(weights[param]) }

\* main.rs:94-102: every grammar one call can return.
random_weighted_grammar(weights) == GrammarsFrom(weights, 0, 0)

\* main.rs:97: the outcomes the coin flips of one call can have, one flip
\* per parameter.
CoinFlips(weights) ==
    { flips \in [Params -> BOOLEAN] :
        \A param \in Params : flips[param] \in weighted_coin_flip(weights[param]) }

\* main.rs:95-101: the loop of random_weighted_grammar run with the given
\* outcomes of its coin flips, from parameter param on.  fresh says whether
\* every call of set_param so far was made on a grammar whose parameter was
\* still 0.
RECURSIVE GrammarOfFlips(_, _, _, _)
GrammarOfFlips(flips, param, grammar, fresh) ==
    IF param = NUM_PARAMS THEN [grammar |-> grammar, fresh |-> fresh]
    ELSE IF flips[param]
         THEN GrammarOfFlips(flips, param + 1, set_param(grammar, param),
                             fresh /\ get_param(grammar, param) = 0)
         ELSE GrammarOfFlips(flips, param + 1, grammar, fresh)

----------------------------------------------------------------------------
(* Domain (colag.rs:9-11): grammar identifier -> set of sentence ids.     *)

\* The two-grammar Domain {0b0..01 -> {7}, 0b1..1 -> {9}}.
SyntheticDomain == (1 :> {7}) @@ (AllOnes :> {9})

\* A Domain in which sentence 8 belongs to both languages.
OverlapDomain == (1 :> {7, 8}) @@ (AllOnes :> {8, 9})

\* The same with the last parameter off in both grammars.
MirrorDomain == (0 :> {7, 8}) @@ ((AllOnes - 1) :> {8, 9})

\* colag.rs:16-19: Domain::new(), the Domain without any language.
EmptyDomain == [grammar \in {} |-> {}]

\* Mutant of sentence_parses: the test of main.rs:105 is the wrong way round
\* for the keys, and no grammar is Ok.
SentenceParsesNeverOk(domain, grammar, sentence) ==
    [ok |-> FALSE, illegal |-> grammar]

\* Mutant of sentence_parses: a grammar that is not in the Domain parses
\* nothing (Ok(false)) instead of being an error.
SentenceParsesMissingIsFalse(domain, grammar, sentence) ==
    IF grammar \in DOMAIN domain
    THEN [ok |-> TRUE, parses |-> sentence \in domain[grammar]]
    ELSE [ok |-> TRUE, parses |-> FALSE]

\* main.rs:104-110: Ok(sentences.contains(sentence)) or Err(IllegalGrammar).
sentence_parses(domain, grammar, sentence) ==
    IF grammar \in DOMAIN domain
    THEN [ok |-> TRUE, parses |-> sentence \in domain[grammar]]
    ELSE [ok |-> FALSE, illegal |-> grammar]

----------------------------------------------------------------------------
(* Hypothesis (main.rs:27-90).                                             *)

VariationalKinds == {"RewardOnlyVL", "RewardOnlyRelevantVL"}

\* main.rs:49-57
init_weights == [param \in Params |-> HALF]

\* main.rs:60-62
new_trigger == [kind |-> "Trigger", grammar |-> 0]

\* main.rs:64-66
new_reward_only == [kind |-> "RewardOnlyVL", weights |-> init_weights]

\* main.rs:68-70
new_reward_only_relevant ==
    [kind |-> "RewardOnlyRelevantVL", weights |-> init_weights]

\* main.rs:72-74
new_genetic == [kind |-> "Genetic", grammars |-> {}]

\* Mutant of ConvergedFrom: the loop returns true on the first weight that
\* is outside the band instead of going on to the next.
ConvergedFromFirst(weights, param) ==
    IF param = NUM_PARAMS THEN TRUE
    ELSE ~((weights[param] > THRESHOLD) /\ (weights[param] < ONE - THRESHOLD))

\* main.rs:79-84: the loop over the weights, from parameter param on.
RECURSIVE ConvergedFrom(_, _)
ConvergedFrom(weights, param) ==
    IF param = NUM_PARAMS THEN TRUE
    ELSE IF (weights[param] > THRESHOLD) /\ (weights[param] < ONE - THRESHOLD)
         THEN FALSE
         ELSE ConvergedFrom(weights, param + 1)

\* main.rs:76-88
converged(hypothesis) ==
    IF hypothesis.kind \in VariationalKinds
    THEN ConvergedFrom(hypothesis.weights, 0)
    ELSE FALSE

----------------------------------------------------------------------------
(* Reward update and learning step (main.rs:112-166).                      *)

\* Mutant of reward_weights: the step is LEARNING_RATE itself, not
\* LEARNING_RATE times the distance left.
RewardWeightsUnscaled(weights, grammar, sentence) ==
    [param \in Params |->
        IF get_param(grammar, param) = 0
        THEN weights[param] - LEARNING_RATE
        ELSE weights[param] + LEARNING_RATE]

\* Mutant of reward_weights: the two arms of the test are exchanged.
RewardWeightsSwapped(weights, grammar, sentence) ==
    [param \in Params |->
        IF get_param(grammar, param) = 0
        THEN weights[param] + Mul(LEARNING_RATE, ONE - weights[param])
        ELSE weights[param] - Mul(LEARNING_RATE, weights[param])]

\* main.rs:112-122
reward_weights(weights, grammar, sentence) ==
    [param \in Params |->
        IF get_param(grammar, param) = 0
        THEN weights[param] - Mul(LEARNING_RATE, weights[param])
        ELSE weights[param] + Mul(LEARNING_RATE, ONE - weights[param])]

\* main.rs:124-134
reward_relevant_weights(weights, grammar, sentence, triggers) ==
    [param \in Params |->
        IF get_param(grammar, param) = 0
        THEN weights[param] - Mul(LEARNING_RATE, weights[param])
        ELSE weights[param] + Mul(LEARNING_RATE, ONE - weights[param])]

\* Mutant of ConsumeIteration: the loop is left only when the candidate
\* parses, so a parse failure samples again.
ConsumeIterationRetry(hypothesis, domain, sentence, grammar) ==
    LET res == sentence_parses(domain, grammar, sentence)
    IN  IF ~res.ok \/ ~res.parses
        THEN [hypothesis |-> hypothesis, brk |-> FALSE, parsed |-> FALSE]
        ELSE [hypothesis |->
                 [hypothesis EXCEPT !.weights =
                     reward_weights(hypothesis.weights, grammar, sentence)],
              brk |-> TRUE, parsed |-> TRUE]

\* main.rs:140-147 and 153-160: one turn of the loop of consume_sentence with
\* the sampled candidate grammar; brk says whether the loop is left and
\* parsed whether the candidate was legal and parsed the sentence.  In the
\* RewardOnlyRelevantVL arm (main.rs:157) the value of reward_relevant_weights
\* is dropped and weights is left as it was.
ConsumeIteration(hypothesis, domain, sentence, grammar) ==
    LET res == sentence_parses(domain, grammar, sentence)
    IN  IF ~res.ok
        THEN [hypothesis |-> hypothesis, brk |-> FALSE, parsed |-> FALSE]
        ELSE IF hypothesis.kind = "RewardOnlyVL"
        THEN [hypothesis |->
                 [hypothesis EXCEPT !.weights =
                     IF res.parses
                     THEN reward_weights(hypothesis.weights, grammar, sentence)
                     ELSE hypothesis.weights],
              brk |-> TRUE, parsed |-> res.parses]
        ELSE [hypothesis |->
                 [hypothesis EXCEPT !.weights =
                     IF res.parses
                     THEN LET dropped == reward_relevant_weights(
                                  hypothesis.weights, grammar, sentence, <<>>)
                          IN  hypothesis.weights
                     ELSE hypothesis.weights],
              brk |-> TRUE, parsed |-> res.parses]

\* main.rs:136-166: consume_sentence run on a stream of sampled candidates,
\* drawn of which the loop has used up already.  returned is FALSE when the
\* stream ends with the loop still running, panicked is TRUE for the arm of
\* main.rs:164, drawn counts the calls of random_weighted_grammar made, and
\* parsed says whether the candidate that ended the loop parsed the sentence.
RECURSIVE ConsumeFrom(_, _, _, _, _)
ConsumeFrom(hypothesis, domain, sentence, samples, drawn) ==
    IF samples = <<>>
    THEN [hypothesis |-> hypothesis, returned |-> FALSE, panicked |-> FALSE,
          drawn |-> drawn, parsed |-> FALSE]
    ELSE LET turn == ConsumeIteration(hypothesis, domain, sentence, Head(samples))
         IN  IF turn.brk
             THEN [hypothesis |-> turn.hypothesis, returned |-> TRUE,
                   panicked |-> FALSE, drawn |-> drawn + 1,
                   parsed |-> turn.parsed]
             ELSE ConsumeFrom(turn.hypothesis, domain, sentence, Tail(samples),
                              drawn + 1)

\* Mutant of consume_sentence: the last arm of the match hands the
\* hypothesis back (_ => hypothesis) instead of panicking.
ConsumeSentenceOtherArmReturns(hypothesis, domain, sentence, samples) ==
    IF hypothesis.kind \notin VariationalKinds
    THEN [hypothesis |-> hypothesis, returned |-> TRUE, panicked |-> FALSE,
          drawn |-> 0, parsed |-> FALSE]
    ELSE ConsumeFrom(hypothesis, domain, sentence, samples, 0)

\* main.rs:136-166
consume_sentence(hypothesis, domain, sentence, samples) ==
    IF hypothesis.kind \notin VariationalKinds
    THEN [hypothesis |-> hypothesis, returned |-> FALSE, panicked |-> TRUE,
          drawn |-> 0, parsed |-> FALSE]
    ELSE ConsumeFrom(hypothesis, domain, sentence, samples, 0)

----------------------------------------------------------------------------
(* State.                                                                  *)

VARIABLES
    colag,      \* main.rs:219: the Domain, shared by every worker
    languages,  \* main.rs:220: the target grammars, one worker each
    mainPc,     \* main: "spawn", "join", "done" (returned) or "panicked"
    handles,    \* main.rs:221-232: number of workers spawned so far
    joined,     \* main.rs:234-236: number of handles joined so far
    workers,    \* per worker: position and locals of the closure and of
                \* learn_language/consume_sentence running in it
    reports,    \* per worker: the Reports it has printed (main.rs:229)
    call,       \* the calls of consume_sentence: in SpecStep and SpecCall a
                \* pair of hypotheses stepped by it, in SpecLive the locals
                \* of the call each worker is in
    probe       \* harness: one application of a pure function

vars == <<colag, languages, mainPc, handles, joined, workers, reports,
          call, probe>>

progVars == <<colag, languages, mainPc, handles, joined, workers, reports>>

WorkerIds == 1 .. Len(languages)

\* main.rs:186-191
Report(hypothesis, target, conv, cons) ==
    [hypothesis |-> hypothesis, target |-> target,
     converged |-> conv, consumed |-> cons]

\* A worker before thread::spawn.  drawn counts the sentences drawn by
\* rng.choose (main.rs:202) and handed to consume_sentence in the current
\* trial, and parsed those of them that the legal candidate parsed: both are
\* history, not locals.
IdleWorker ==
    [pc |-> "idle", run |-> 0, hypothesis |-> new_reward_only, i |-> 0,
     converged |-> FALSE, consumed |-> 0, drawn |-> 0, parsed |-> 0]

NoCall == [active |-> FALSE]
NoProbe == [fn |-> "none"]

\* The target lists tried: both targets in the Domain, or one of them absent.
LanguageLists ==
    { <<1, AllOnes>>, <<1, 0>>, <<0, 1>> }

\* main.rs:219-221
Init ==
    /\ colag = SyntheticDomain
    /\ languages \in LanguageLists
    /\ mainPc = "spawn"
    /\ handles = 0
    /\ joined = 0
    /\ workers = [w \in 1 .. Len(languages) |-> IdleWorker]
    /\ reports = [w \in 1 .. Len(languages) |-> <<>>]
    /\ call = NoCall
    /\ probe = NoProbe

----------------------------------------------------------------------------
(* main (main.rs:218-237).                                                 *)

\* The process lives until main returns or panics.
ProcessAlive == mainPc \in {"spawn", "join"}

\* main.rs:223-232: push one more handle; the thread starts its closure.
Spawn ==
    /\ mainPc = "spawn"
    /\ handles < Len(languages)
    /\ handles' = handles + 1
    /\ workers' = [workers EXCEPT ![handles + 1].pc = "run"]
    /\ mainPc' = IF handles + 1 = Len(languages) THEN "join" ELSE "spawn"
    /\ UNCHANGED <<colag, languages, joined, reports, call, probe>>

\* Mutant of JoinReturns: main does not wait for the thread to end.
JoinReturnsAtOnce(w) == workers[w].pc # "idle"

\* main.rs:235: join() returns once the thread has ended.
JoinReturns(w) == workers[w].pc \in {"finished", "panicked"}

\* Mutant of JoinUnwrapPanics: the Result of join() is ignored.
JoinResultIgnored(w) == FALSE

\* main.rs:235: unwrap() panics on the Err of a thread that panicked.
JoinUnwrapPanics(w) == workers[w].pc = "panicked"

\* main.rs:234-237: join the next handle, then return after the last.
Join ==
    /\ mainPc = "join"
    /\ joined < Len(languages)
    /\ JoinReturns(joined + 1)
    /\ IF JoinUnwrapPanics(joined + 1)
       THEN /\ mainPc' = "panicked"
            /\ UNCHANGED joined
       ELSE /\ joined' = joined + 1
            /\ mainPc' = IF joined + 1 = Len(languages) THEN "done" ELSE "join"
    /\ UNCHANGED <<colag, languages, handles, workers, reports, call, probe>>

----------------------------------------------------------------------------
(* The worker closure (main.rs:225-231), learn_language (main.rs:193-216)  *)
(* and the calls of consume_sentence (main.rs:136-166) made in it.          *)

\* main.rs:195-197: get(&target) is None, and expect() panics.
TargetMissing(domain, target) == target \notin DOMAIN domain

\* main.rs:201: the range 1..NUM_SENTENCES still holds i.
LoopContinues(n) == n < NUM_SENTENCES

\* Mutant of StartRun: the hypothesis is made once, before the loop over the
\* trials, and each trial goes on from the weights the last one left.
StartRunKeepsHypothesis(w) ==
    /\ ProcessAlive
    /\ workers[w].pc = "run"
    /\ workers[w].run < RUNS_PER_LANGUAGE
    /\ IF TargetMissing(colag, languages[w])
       THEN workers' = [workers EXCEPT ![w].pc = "panicked"]
       ELSE workers' = [workers EXCEPT ![w].pc = "loop",
                                       ![w].converged = FALSE,
                                       ![w].consumed = NUM_SENTENCES,
                                       ![w].i = 1,
                                       ![w].drawn = 0,
                                       ![w].parsed = 0]
    /\ UNCHANGED <<colag, languages, mainPc, handles, joined, reports,
                   call, probe>>

\* main.rs:226-228, 194-200: the next trial: a fresh hypothesis, then the
\* prologue of learn_language, which panics on an unknown target.
StartRun(w) ==
    /\ ProcessAlive
    /\ workers[w].pc = "run"
    /\ workers[w].run < RUNS_PER_LANGUAGE
    /\ IF TargetMissing(colag, languages[w])
       THEN workers' = [workers EXCEPT ![w].pc = "panicked",
                                       ![w].hypothesis = new_reward_only]
       ELSE workers' = [workers EXCEPT ![w].pc = "loop",
                                       ![w].hypothesis = new_reward_only,
                                       ![w].converged = FALSE,
                                       ![w].consumed = NUM_SENTENCES,
                                       ![w].i = 1,
                                       ![w].drawn = 0,
                                       ![w].parsed = 0]
    /\ UNCHANGED <<colag, languages, mainPc, handles, joined, reports,
                   call, probe>>

\* main.rs:226, 231: the range 0..100 is used up and the closure returns.
WorkerExit(w) ==
    /\ ProcessAlive
    /\ workers[w].pc = "run"
    /\ workers[w].run >= RUNS_PER_LANGUAGE
    /\ workers' = [workers EXCEPT ![w].pc = "finished"]
    /\ UNCHANGED <<colag, languages, mainPc, handles, joined, reports,
                   call, probe>>

\* main.rs:140: the streams of candidates that successive calls of
\* random_weighted_grammar can yield while the weights stay as they are.
AnyStreams(weights) ==
    LET candidates == random_weighted_grammar(weights)
    IN  UNION { [1 .. n -> candidates] : n \in 1 .. MaxSamples }

\* main.rs:139-148: the streams one call of consume_sentence can draw to its
\* end: candidates that are not in the Domain, then one that is.
SampleStreams(domain, weights) ==
    LET candidates == random_weighted_grammar(weights)
        legal == candidates \cap DOMAIN domain
        illegal == candidates \ DOMAIN domain
    IN  UNION { { skipped \o <<g>> : skipped \in [1 .. n - 1 -> illegal],
                                      g \in legal }
                : n \in 1 .. MaxSamples }

\* Mutant of Step: the loop records consumed = i on convergence but does
\* not break.
StepNoBreak(w) ==
    /\ ProcessAlive
    /\ workers[w].pc = "loop"
    /\ LoopContinues(workers[w].i)
    /\ \E s \in colag[languages[w]] :
       \E samples \in SampleStreams(colag, workers[w].hypothesis.weights) :
          LET res == consume_sentence(workers[w].hypothesis, colag, s, samples)
              conv == converged(res.hypothesis)
          IN  /\ res.returned
              /\ res.drawn = Len(samples)
              /\ workers' = [workers EXCEPT
                      ![w].hypothesis = res.hypothesis,
                      ![w].drawn = @ + 1,
                      ![w].parsed = IF res.parsed THEN @ + 1 ELSE @,
                      ![w].converged = conv,
                      ![w].consumed = IF conv THEN workers[w].i ELSE @,
                      ![w].i = @ + 1]
    /\ UNCHANGED <<colag, languages, mainPc, handles, joined, reports,
                   call, probe>>

\* Mutant of Step: the hypothesis is one object shared by the workers, and
\* the step of one of them is seen by all.
StepSharedHypothesis(w) ==
    /\ ProcessAlive
    /\ workers[w].pc = "loop"
    /\ LoopContinues(workers[w].i)
    /\ \E s \in colag[languages[w]] :
       \E samples \in SampleStreams(colag, workers[w].hypothesis.weights) :
          LET res == consume_sentence(workers[w].hypothesis, colag, s, samples)
              conv == converged(res.hypothesis)
          IN  /\ res.returned
              /\ res.drawn = Len(samples)
              /\ workers' = [v \in DOMAIN workers |->
                    IF v = w
                    THEN [workers[w] EXCEPT
                             !.hypothesis = res.hypothesis,
                             !.drawn = @ + 1,
                             !.parsed = IF res.parsed THEN @ + 1 ELSE @,
                             !.converged = conv,
                             !.consumed = IF conv THEN workers[w].i ELSE @,
                             !.i = IF conv THEN @ ELSE @ + 1,
                             !.pc = IF conv THEN "ret" ELSE "loop"]
                    ELSE [workers[v] EXCEPT !.hypothesis = res.hypothesis]]
    /\ UNCHANGED <<colag, languages, mainPc, handles, joined, reports,
                   call, probe>>

\* main.rs:201-209: one turn of the loop of learn_language: draw a sentence
\* of the target, run consume_sentence on it with the candidates it samples
\* (samples is the stream the call drew, to its last sample), test
\* convergence, and break with consumed = i or go on with the next i.
Step(w) ==
    /\ ProcessAlive
    /\ workers[w].pc = "loop"
    /\ LoopContinues(workers[w].i)
    /\ \E s \in colag[languages[w]] :
       \E samples \in SampleStreams(colag, workers[w].hypothesis.weights) :
          LET res == consume_sentence(workers[w].hypothesis, colag, s, samples)
              conv == converged(res.hypothesis)
          IN  /\ res.returned
              /\ res.drawn = Len(samples)
              /\ workers' = [workers EXCEPT
                      ![w].hypothesis = res.hypothesis,
                      ![w].drawn = @ + 1,
                      ![w].parsed = IF res.parsed THEN @ + 1 ELSE @,
                      ![w].converged = conv,
                      ![w].consumed = IF conv THEN workers[w].i ELSE @,
                      ![w].i = IF conv THEN @ ELSE @ + 1,
                      ![w].pc = IF conv THEN "ret" ELSE "loop"]
    /\ UNCHANGED <<colag, languages, mainPc, handles, joined, reports,
                   call, probe>>

\* main.rs:201, 210: the range is used up; learn_language builds its Report.
LoopEnd(w) ==
    /\ ProcessAlive
    /\ workers[w].pc = "loop"
    /\ ~LoopContinues(workers[w].i)
    /\ workers' = [workers EXCEPT ![w].pc = "ret"]
    /\ UNCHANGED <<colag, languages, mainPc, handles, joined, reports,
                   call, probe>>

\* main.rs:210-215, 229: learn_language returns its Report and the closure
\* prints it.
EmitReport(w) ==
    /\ ProcessAlive
    /\ workers[w].pc = "ret"
    /\ reports' = [reports EXCEPT ![w] =
          Append(@, Report(workers[w].hypothesis, languages[w],
                           workers[w].converged, workers[w].consumed))]
    /\ workers' = [workers EXCEPT ![w].pc = "run", ![w].run = @ + 1]
    /\ UNCHANGED <<colag, languages, mainPc, handles, joined, call, probe>>

Next ==
    \/ Spawn
    \/ Join
    \/ \E w \in WorkerIds : StartRun(w)
    \/ \E w \in WorkerIds : WorkerExit(w)
    \/ \E w \in WorkerIds : Step(w)
    \/ \E w \in WorkerIds : LoopEnd(w)
    \/ \E w \in WorkerIds : EmitReport(w)

Spec == Init /\ [][Next]_vars

----------------------------------------------------------------------------
(* The program with the loop of consume_sentence (main.rs:139-148) run one *)
(* sample at a time, under fair scheduling of the threads and fair         *)
(* sampling.                                                               *)

\* main.rs:136, 140: the locals of a call of consume_sentence: the sentence
\* it was given and the candidate sampled last; resampled says whether the
\* call has sampled a grammar that is not in the Domain.
NoSample == [sentence |-> 0 - 1, grammar |-> 0 - 1, resampled |-> FALSE]

\* The target lists tried: one target, or two of which one is absent.
LiveLanguageLists == { <<1>>, <<1, 0>>, <<0, 1>> }

\* The handles main can hold.
Slots == {1, 2}

InitLive ==
    /\ colag = SyntheticDomain
    /\ languages \in LiveLanguageLists
    /\ mainPc = "spawn"
    /\ handles = 0
    /\ joined = 0
    /\ workers = [w \in 1 .. Len(languages) |-> IdleWorker]
    /\ reports = [w \in 1 .. Len(languages) |-> <<>>]
    /\ call = [w \in 1 .. Len(languages) |-> NoSample]
    /\ probe = NoProbe

\* main.rs:201-203: the next i of the range; a sentence of the target is
\* drawn and consume_sentence is entered.
DrawSentence(w) ==
    /\ ProcessAlive
    /\ workers[w].pc = "loop"
    /\ LoopContinues(workers[w].i)
    /\ \E s \in colag[languages[w]] :
          call' = [call EXCEPT ![w] = [NoSample EXCEPT !.sentence = s]]
    /\ workers' = [workers EXCEPT ![w].pc = "consume", ![w].drawn = @ + 1]
    /\ UNCHANGED <<colag, languages, mainPc, handles, joined, reports, probe>>

\* main.rs:140-142, 147: the sampled grammar is not in the Domain
\* (sentence_parses is Err), and the loop goes round.
SampleIllegal(w) ==
    /\ ProcessAlive
    /\ workers[w].pc = "consume"
    /\ \E g \in random_weighted_grammar(workers[w].hypothesis.weights) :
          LET turn == ConsumeIteration(workers[w].hypothesis, colag,
                                       call[w].sentence, g)
          IN  /\ ~turn.brk
              /\ call' = [call EXCEPT ![w].grammar = g, ![w].resampled = TRUE]
    /\ UNCHANGED <<colag, languages, mainPc, handles, joined, workers,
                   reports, probe>>

\* main.rs:140-149, 204-208: the sampled grammar is in the Domain: it is
\* rewarded if it parses, the loop breaks, consume_sentence returns, and
\* learn_language tests convergence.
SampleLegal(w) ==
    /\ ProcessAlive
    /\ workers[w].pc = "consume"
    /\ \E g \in random_weighted_grammar(workers[w].hypothesis.weights) :
          LET turn == ConsumeIteration(workers[w].hypothesis, colag,
                                       call[w].sentence, g)
              conv == converged(turn.hypothesis)
          IN  /\ turn.brk
              /\ call' = [call EXCEPT ![w].grammar = g]
              /\ workers' = [workers EXCEPT
                      ![w].hypothesis = turn.hypothesis,
                      ![w].parsed = IF turn.parsed THEN @ + 1 ELSE @,
                      ![w].converged = conv,
                      ![w].consumed = IF conv THEN workers[w].i ELSE @,
                      ![w].i = IF conv THEN @ ELSE @ + 1,
                      ![w].pc = IF conv THEN "ret" ELSE "loop"]
    /\ UNCHANGED <<colag, languages, mainPc, handles, joined, reports, probe>>

NextLive ==
    \/ Spawn
    \/ Join
    \/ \E w \in WorkerIds : StartRun(w)
    \/ \E w \in WorkerIds : WorkerExit(w)
    \/ \E w \in WorkerIds : DrawSentence(w)
    \/ \E w \in WorkerIds : SampleIllegal(w)
    \/ \E w \in WorkerIds : SampleLegal(w)
    \/ \E w \in WorkerIds : LoopEnd(w)
    \/ \E w \in WorkerIds : EmitReport(w)

\* main.rs:218-237: what the main thread does next.
MainProgress == Spawn \/ Join

\* main.rs:225-231: what the thread of handle w does next, but for sampling
\* a grammar that is not in the Domain.
WorkerProgress(w) ==
    /\ w \in WorkerIds
    /\ \/ StartRun(w)
       \/ WorkerExit(w)
       \/ DrawSentence(w)
       \/ SampleLegal(w)
       \/ LoopEnd(w)
       \/ EmitReport(w)

\* Every thread that can run does run (the scheduler of the operating
\* system), and a loop that can sample a grammar of the Domain does not
\* sample others for ever (weighted_coin_flip draws from thread_rng, and
\* every grammar of the Domain has a positive probability).
SpecLive ==
    /\ InitLive
    /\ [][NextLive]_vars
    /\ WF_vars(MainProgress)
    /\ \A w \in Slots : WF_vars(WorkerProgress(w))

----------------------------------------------------------------------------
(* consume_sentence called as learn_language calls it, by one learner with *)
(* no sentence budget: each call is made on the weights the last call      *)
(* returned, until they are converged (main.rs:203-208).  The stream of    *)
(* each call is its last sample alone, a candidate of the Domain.          *)

\* main.rs:30-31: the two variational variants holding the given weights.
RewardOnlyVL(weights) == [kind |-> "RewardOnlyVL", weights |-> weights]
RewardOnlyRelevantVL(weights) ==
    [kind |-> "RewardOnlyRelevantVL", weights |-> weights]

\* main.rs:136: the result of a call that has not been made.
NotCalled(hypothesis) ==
    [hypothesis |-> hypothesis, returned |-> FALSE, panicked |-> FALSE,
     drawn |-> 0, parsed |-> FALSE]

\* Before the first call on the given weights.
BeforeCall(weights) ==
    [active |-> TRUE, made |-> FALSE, pre |-> weights,
     sentence |-> 0 - 1, samples |-> <<>>,
     vl |-> NotCalled(RewardOnlyVL(weights)),
     rel |-> NotCalled(RewardOnlyRelevantVL(weights))]

\* main.rs:136: consume_sentence(hypothesis, colag, sentence) called on the
\* weights for each of the two variational variants, with the same samples.
Called(weights, sentence, samples) ==
    [active |-> TRUE, made |-> TRUE, pre |-> weights,
     sentence |-> sentence, samples |-> samples,
     vl |-> consume_sentence(RewardOnlyVL(weights), colag, sentence, samples),
     rel |-> consume_sentence(RewardOnlyRelevantVL(weights), colag, sentence,
                              samples)]

InitStep ==
    /\ colag \in {SyntheticDomain, OverlapDomain, MirrorDomain}
    /\ languages \in {<<target>> : target \in DOMAIN colag}
    /\ mainPc = "spawn"
    /\ handles = 0
    /\ joined = 0
    /\ workers = [w \in 1 .. Len(languages) |-> IdleWorker]
    /\ reports = [w \in 1 .. Len(languages) |-> <<>>]
    /\ call = BeforeCall(init_weights)
    /\ probe = NoProbe

\* main.rs:202-208: the next sentence of the target is consumed, unless the
\* hypothesis is converged.
ConsumeCall ==
    /\ call.active
    /\ ~converged(call.vl.hypothesis)
    /\ \E s \in colag[languages[1]] :
       \E g \in random_weighted_grammar(call.vl.hypothesis.weights) :
          LET next == Called(call.vl.hypothesis.weights, s, <<g>>)
          IN  /\ next.vl.returned
              /\ call' = next
    /\ UNCHANGED <<progVars, probe>>

NextStep == ConsumeCall

SpecStep == InitStep /\ [][NextStep]_vars

----------------------------------------------------------------------------
(* One call of consume_sentence on weights a learner can hold, with any    *)
(* stream of sampled candidates.                                           *)

\* Weights of a learner: the initial 0.5, 0.5 rewarded once toward 0, and a
\* weight that many rewards toward 1 have taken one unit short of 1.0.
CallWeightSamples == {HALF - Mul(LEARNING_RATE, HALF), HALF, ONE - 1}

InitCall ==
    /\ colag \in {SyntheticDomain, OverlapDomain, MirrorDomain}
    /\ languages \in {<<target>> : target \in DOMAIN colag}
    /\ mainPc = "spawn"
    /\ handles = 0
    /\ joined = 0
    /\ workers = [w \in 1 .. Len(languages) |-> IdleWorker]
    /\ reports = [w \in 1 .. Len(languages) |-> <<>>]
    /\ \E weights \in [Params -> CallWeightSamples] : call = BeforeCall(weights)
    /\ probe = NoProbe

\* main.rs:202-203: one sentence of the target is consumed.
OneCall ==
    /\ call.active
    /\ ~call.made
    /\ \E s \in colag[languages[1]] :
       \E samples \in AnyStreams(call.pre) :
          call' = Called(call.pre, s, samples)
    /\ UNCHANGED <<progVars, probe>>

NextCall == OneCall

SpecCall == InitCall /\ [][NextCall]_vars

----------------------------------------------------------------------------
(* The pure functions applied, once each behaviour, to inputs drawn from    *)
(* bounded sets.                                                           *)

\* Weights at and next to the values the code compares with.
WeightSamples ==
    {0, THRESHOLD, THRESHOLD + 1, HALF, ONE - THRESHOLD - 1, ONE - THRESHOLD, ONE}

\* main.rs:27-32: hypotheses of the four variants.
HypothesisSamples ==
    { RewardOnlyVL(weights) : weights \in [Params -> WeightSamples] }
    \cup { RewardOnlyRelevantVL(weights) : weights \in [Params -> WeightSamples] }
    \cup { [kind |-> "Trigger", grammar |-> g] : g \in Grammars }
    \cup { [kind |-> "Genetic", grammars |-> gs] : gs \in SUBSET Grammars }

\* Domains the pure functions are applied to.
DomainSamples == {EmptyDomain, SyntheticDomain, OverlapDomain, MirrorDomain}

\* Grammar identifiers: every one of NUM_PARAMS bits, the first above them,
\* and the two greatest of a u16.
GrammarSamples == Grammars \cup {AllOnes + 1, U16 - 2, U16 - 1}

\* Sentence identifiers: those of the Domains and one that is in none.
SentenceSamples == Sentences \cup {6}

\* Streams of candidates at hand for a call of consume_sentence.
StreamSamples == {<<>>} \cup { <<g>> : g \in Grammars }

InitFn ==
    /\ colag \in DomainSamples
    /\ languages = <<1>>
    /\ mainPc = "spawn"
    /\ handles = 0
    /\ joined = 0
    /\ workers = [w \in 1 .. Len(languages) |-> IdleWorker]
    /\ reports = [w \in 1 .. Len(languages) |-> <<>>]
    /\ call = NoCall
    /\ probe = NoProbe

\* main.rs:76-88: hypothesis.converged()
ProbeConverged ==
    /\ probe = NoProbe
    /\ \E h \in HypothesisSamples :
          probe' = [fn |-> "converged", arg |-> h, result |-> converged(h)]
    /\ UNCHANGED <<progVars, call>>

\* main.rs:136-166: consume_sentence(hypothesis, &colag, &sentence) on a
\* Trigger or Genetic hypothesis; colag is borrowed immutably.
ProbeConsumeSentence ==
    /\ probe = NoProbe
    /\ \E h \in HypothesisSamples, sentence \in SentenceSamples,
          samples \in StreamSamples :
          /\ h.kind \notin VariationalKinds
          /\ probe' = [fn |-> "consume_sentence", arg |-> h,
                       domain |-> colag, sentence |-> sentence,
                       samples |-> samples,
                       result |-> consume_sentence(h, colag, sentence, samples)]
    /\ UNCHANGED <<progVars, call>>

\* main.rs:104-110: sentence_parses(&colag, &grammar, &sentence); colag is
\* borrowed immutably.
ProbeSentenceParses ==
    /\ probe = NoProbe
    /\ \E grammar \in GrammarSamples, sentence \in SentenceSamples :
          probe' = [fn |-> "sentence_parses", domain |-> colag,
                    grammar |-> grammar, sentence |-> sentence,
                    result |-> sentence_parses(colag, grammar, sentence)]
    /\ UNCHANGED <<progVars, call>>

\* main.rs:169-176: get_param(&set_param(grammar, param_num), param_num)
ProbeSetParam ==
    /\ probe = NoProbe
    /\ \E grammar \in GrammarSamples, param_num \in Params :
          probe' = [fn |-> "set_param", grammar |-> grammar,
                    param_num |-> param_num,
                    before |-> get_param(grammar, param_num),
                    result |-> set_param(grammar, param_num),
                    after |-> get_param(set_param(grammar, param_num),
                                        param_num)]
    /\ UNCHANGED <<progVars, call>>

\* main.rs:94-102: random_weighted_grammar(&weights) with one outcome of its
\* coin flips; possible is every grammar the call can return.
ProbeRandomWeightedGrammar ==
    /\ probe = NoProbe
    /\ \E weights \in [Params -> WeightSamples] :
       \E flips \in CoinFlips(weights) :
          LET run == GrammarOfFlips(flips, 0, 0, TRUE)
          IN  probe' = [fn |-> "random_weighted_grammar", weights |-> weights,
                        flips |-> flips, result |-> run.grammar,
                        fresh |-> run.fresh,
                        possible |-> random_weighted_grammar(weights)]
    /\ UNCHANGED <<progVars, call>>

NextFn ==
    \/ ProbeConverged
    \/ ProbeConsumeSentence
    \/ ProbeSentenceParses
    \/ ProbeSetParam
    \/ ProbeRandomWeightedGrammar

SpecFn == InitFn /\ [][NextFn]_vars

----------------------------------------------------------------------------
(* Claims.                                                                 *)

\* The weights a call of the harness was made on, and those it returned.
CallPre == call.pre
CallPost == call.vl.hypothesis.weights

\* C1: for the same weights, Domain, sentence and sampled candidates,
\* consume_sentence on a RewardOnlyRelevantVL hypothesis returns the same
\* weight vector as on a RewardOnlyVL hypothesis.
C1_RelevantUpdatesAsRewardOnly ==
    (call.active /\ call.made) =>
        call.rel.hypothesis.weights = call.vl.hypothesis.weights

\* C2: a trial that never converges applies the learning step exactly
\* NUM_SENTENCES times before it reports converged = FALSE, and no trial
\* applies more than NUM_SENTENCES steps.
C2_FullBudgetConsumed ==
    \A w \in WorkerIds :
        /\ workers[w].drawn <= NUM_SENTENCES
        /\ (workers[w].pc = "ret" /\ ~workers[w].converged)
              => workers[w].drawn = NUM_SENTENCES

\* C3: the consumed field of every Report equals the number of sentences
\* drawn and passed to consume_sentence in its trial, converged or not.
C3_ConsumedCountsSentences ==
    \A w \in WorkerIds :
        workers[w].pc = "ret" => workers[w].consumed = workers[w].drawn

\* C4: when main returns (no fatal condition), every worker has finished
\* all its trials and has produced exactly RUNS_PER_LANGUAGE Reports, each
\* with the worker's own target: N x M Reports for N targets, M trials each.
C4_AllReportsAtExit ==
    mainPc = "done" =>
        \A w \in WorkerIds :
            /\ workers[w].pc = "finished"
            /\ workers[w].run = RUNS_PER_LANGUAGE
            /\ Len(reports[w]) = RUNS_PER_LANGUAGE
            /\ \A k \in 1 .. Len(reports[w]) :
                  reports[w][k].target = languages[w]

\* C4 witness: main has returned after two workers with different targets
\* printed all their Reports.
C4_Witness ==
    /\ mainPc = "done"
    /\ Len(languages) = 2
    /\ languages[1] # languages[2]
    /\ \A w \in WorkerIds : Len(reports[w]) = RUNS_PER_LANGUAGE

\* C6 as stated: in a run where some worker's target is unknown, no worker
\* emits a Report.
C6_NoReportWhenTargetUnknown ==
    (\E w \in WorkerIds : TargetMissing(colag, languages[w]))
        => \A w \in WorkerIds : reports[w] = <<>>

\* C6 amended: a worker whose target is unknown panics in its first trial
\* without emitting a Report, and main then never returns normally: it
\* panics at the join of that worker (Reports of the other workers may have
\* been emitted by then).
C6_UnknownTargetAborts ==
    \A w \in WorkerIds :
        TargetMissing(colag, languages[w]) =>
            /\ reports[w] = <<>>
            /\ workers[w].pc \in {"idle", "run", "panicked"}
            /\ workers[w].run = 0
            /\ mainPc # "done"

\* C6 witness: main has panicked at the join of the worker with the unknown
\* target after another worker emitted Reports.
C6_Witness ==
    /\ mainPc = "panicked"
    /\ \E w \in WorkerIds :
          TargetMissing(colag, languages[w]) /\ workers[w].pc = "panicked"
    /\ \E w \in WorkerIds : reports[w] # <<>>

\* The parameter vector a grammar of the Domains stands for: parameter p is
\* bit NUM_PARAMS - p - 1, parameter 0 the most significant bit in use.
BitsOf ==
    (0 :> [p \in Params |-> 0])
    @@ (1 :> [p \in Params |-> IF p = NUM_PARAMS - 1 THEN 1 ELSE 0])
    @@ ((AllOnes - 1) :> [p \in Params |-> IF p = NUM_PARAMS - 1 THEN 0 ELSE 1])
    @@ (AllOnes :> [p \in Params |-> 1])

\* One reward of the weights toward the parameter values of grammar g.
RewardedToward(weights, g) ==
    [p \in Params |->
        IF BitsOf[g][p] = 1
        THEN weights[p] + RoundDiv(LEARNING_RATE * (ONE - weights[p]), ONE)
        ELSE weights[p] - RoundDiv(LEARNING_RATE * weights[p], ONE)]

\* The positions of the stream holding a grammar of the Domain.
LegalAt == { k \in 1 .. Len(call.samples) : call.samples[k] \in DOMAIN colag }

\* The candidate whose evaluation ended the call.
Evaluated == call.samples[call.vl.drawn]

\* C5: a call of consume_sentence on a RewardOnlyVL hypothesis skips the
\* sampled grammars absent from the Domain without changing the weights,
\* evaluates the first one present and no other, and returns the weights
\* rewarded once toward that candidate's parameter values if it parses the
\* sentence, and the weights unchanged if it does not.
C5_OneCandidateEvaluated ==
    call.made =>
        IF LegalAt = {}
        THEN /\ ~call.vl.returned
             /\ call.vl.drawn = Len(call.samples)
             /\ CallPost = CallPre
        ELSE /\ call.vl.returned
             /\ call.vl.drawn \in LegalAt
             /\ \A k \in LegalAt : call.vl.drawn <= k
             /\ CallPost = IF call.sentence \in colag[Evaluated]
                           THEN RewardedToward(CallPre, Evaluated)
                           ELSE CallPre

\* C5 witness: an absent grammar was skipped, the weights were rewarded
\* toward a parsing candidate that is not the target, and the sample drawn
\* after it (one that does not parse) was not evaluated.
C5_Witness ==
    /\ call.made
    /\ Len(call.samples) = MaxSamples
    /\ call.samples[1] \notin DOMAIN colag
    /\ call.samples[2] \in DOMAIN colag
    /\ call.samples[2] # languages[1]
    /\ call.sentence \in colag[call.samples[2]]
    /\ call.vl.drawn = 2
    /\ CallPost = RewardedToward(CallPre, call.samples[2])
    /\ CallPost # RewardedToward(CallPre, languages[1])
    /\ CallPost # CallPre

\* C7: from all weights 0.5, every weight is strictly inside (0, 1) before
\* and after every learning step, so weighted_coin_flip's precondition
\* holds at every coin flip.
C7_WeightsInsideUnitInterval ==
    \A p \in Params :
        /\ 0 < CallPre[p] /\ CallPre[p] < ONE
        /\ 0 < CallPost[p] /\ CallPost[p] < ONE

\* C7 witness: after many rewards a weight is one unit short of 1.0 while
\* another is below 0.5.
C7_Witness ==
    /\ call.made
    /\ \E p \in Params : CallPost[p] = ONE - 1
    /\ \E p \in Params : CallPost[p] < HALF

\* C8 as stated: a reward toward parameter value 1 strictly increases a
\* weight below 1, and a reward toward 0 strictly decreases a weight above 0.
C8_StrictlyMonotone ==
    (call.made /\ call.vl.parsed) =>
        \A p \in Params :
            /\ (BitsOf[Evaluated][p] = 1 /\ CallPre[p] < ONE)
                  => CallPost[p] > CallPre[p]
            /\ (BitsOf[Evaluated][p] = 0 /\ CallPre[p] > 0)
                  => CallPost[p] < CallPre[p]

\* C8 amended: a reward toward parameter value 1 never decreases a weight of
\* [0, 1] nor takes it above 1, and strictly increases it when it is at most
\* 1 - THRESHOLD; a reward toward 0 never increases it nor takes it below 0,
\* and strictly decreases it when it is at least THRESHOLD.  (Closer to the
\* end of the interval the rounded step can be zero.)
C8_Monotone ==
    (call.made /\ call.vl.parsed) =>
        \A p \in Params :
            /\ BitsOf[Evaluated][p] = 1 =>
                  /\ CallPre[p] <= CallPost[p] /\ CallPost[p] <= ONE
                  /\ CallPre[p] <= ONE - THRESHOLD => CallPre[p] < CallPost[p]
            /\ BitsOf[Evaluated][p] = 0 =>
                  /\ 0 <= CallPost[p] /\ CallPost[p] <= CallPre[p]
                  /\ CallPre[p] >= THRESHOLD => CallPost[p] < CallPre[p]

\* C8 witness: one reward moved a weight of the band and left a weight one
\* unit short of 1.0 where it was.
C8_Witness ==
    /\ call.made
    /\ call.vl.parsed
    /\ \E p \in Params :
          /\ BitsOf[Evaluated][p] = 1
          /\ CallPre[p] = ONE - 1
          /\ CallPost[p] = CallPre[p]
    /\ \E p \in Params :
          /\ CallPre[p] > THRESHOLD /\ CallPre[p] < ONE - THRESHOLD
          /\ CallPost[p] # CallPre[p]

\* C9: converged() is true of a variational hypothesis iff every weight is
\* <= THRESHOLD or >= 1 - THRESHOLD, so not of all 0.5, of all 0.0, of all
\* 1.0, not of 0.0/1.0 values with a single 0.5; and it is false of every
\* Trigger and Genetic hypothesis.
C9_ConvergedIff ==
    probe.fn = "converged" =>
        LET h == probe.arg
            variational == h.kind \in VariationalKinds
        IN  /\ probe.result =
                  (variational /\ \A p \in Params :
                        h.weights[p] <= THRESHOLD \/ h.weights[p] >= ONE - THRESHOLD)
            /\ h.kind \in {"Trigger", "Genetic"} => ~probe.result
            /\ (variational /\ \A p \in Params : h.weights[p] = HALF)
                  => ~probe.result
            /\ (variational /\ \A p \in Params : h.weights[p] = 0)
                  => probe.result
            /\ (variational /\ \A p \in Params : h.weights[p] = ONE)
                  => probe.result
            /\ (/\ variational
                /\ \A p \in Params : h.weights[p] \in {0, HALF, ONE}
                /\ Cardinality({p \in Params : h.weights[p] = HALF}) = 1)
                  => ~probe.result

\* C9 witness: converged() was applied to a vector whose first weight is 0.0
\* and whose last is 0.5, and returned false.
C9_Witness ==
    /\ probe.fn = "converged"
    /\ probe.arg.kind = "RewardOnlyVL"
    /\ probe.arg.weights[0] = 0
    /\ probe.arg.weights[NUM_PARAMS - 1] = HALF
    /\ \A p \in Params : probe.arg.weights[p] \in {0, HALF, ONE}
    /\ Cardinality({p \in Params : probe.arg.weights[p] = HALF}) = 1
    /\ ~probe.result

\* The weights of a learner that has settled on grammar 0b0..01.
TargetShape(weights) ==
    /\ weights[NUM_PARAMS - 1] >= ONE - THRESHOLD
    /\ \A p \in Params \ {NUM_PARAMS - 1} : weights[p] <= THRESHOLD

\* The number of rewards toward grammar g that take the weights into a
\* converged vector (NUM_SENTENCES if that many do not).
RECURSIVE RewardsToConverge(_, _, _)
RewardsToConverge(weights, g, n) ==
    IF converged(RewardOnlyVL(weights)) \/ n >= NUM_SENTENCES THEN n
    ELSE RewardsToConverge(RewardedToward(weights, g), g, n + 1)

\* C10: in the Domain {0b0..01 -> {7}, 0b1..1 -> {9}} a trial for target
\* 0b0..01 from all weights 0.5 is converged once candidate 0b0..01 has been
\* sampled in enough learning steps, and whenever it is converged the last
\* weight is >= 1 - THRESHOLD and every other weight is <= THRESHOLD.
C10_ConvergesToTarget ==
    \A w \in WorkerIds :
        (colag = SyntheticDomain /\ languages[w] = 1) =>
            /\ converged(workers[w].hypothesis)
                  => TargetShape(workers[w].hypothesis.weights)
            /\ (/\ workers[w].pc \in {"loop", "ret"}
                /\ workers[w].parsed >= RewardsToConverge(init_weights, 1, 0))
                  => /\ converged(workers[w].hypothesis)
                     /\ workers[w].converged
            /\ \A k \in 1 .. Len(reports[w]) :
                  reports[w][k].converged
                      => TargetShape(reports[w][k].hypothesis.weights)

\* C10 witness: the trial for target 0b0..01 has converged and reported it.
C10_Witness ==
    \E w \in WorkerIds :
        /\ colag = SyntheticDomain
        /\ languages[w] = 1
        /\ reports[w] # <<>>
        /\ reports[w][1].converged
        /\ reports[w][1].consumed < NUM_SENTENCES
        /\ TargetShape(reports[w][1].hypothesis.weights)

\* C11: consume_sentence on a Trigger or Genetic hypothesis panics whatever
\* the Domain, the sentence and the candidates at hand: it returns no
\* hypothesis, samples no grammar and rewards nothing.
C11_OtherVariantsPanic ==
    (probe.fn = "consume_sentence" /\ probe.arg.kind \in {"Trigger", "Genetic"})
        => /\ probe.result.panicked
           /\ ~probe.result.returned
           /\ probe.result.drawn = 0
           /\ ~probe.result.parsed
           /\ probe.result.hypothesis = probe.arg
           /\ colag = probe.domain

\* C11 witness: a Genetic hypothesis, with a candidate of the Domain at hand
\* that parses the sentence, panics all the same.
C11_Witness ==
    /\ probe.fn = "consume_sentence"
    /\ probe.arg.kind = "Genetic"
    /\ probe.arg.grammars # {}
    /\ probe.samples # <<>>
    /\ probe.samples[1] \in DOMAIN colag
    /\ probe.sentence \in colag[probe.samples[1]]
    /\ probe.result.panicked

\* C12: sentence_parses returns the IllegalGrammar error (with the grammar)
\* exactly when the grammar is not a key of the Domain, and otherwise Ok(b)
\* with b true iff the sentence is in the grammar's sentence set; the Domain
\* is as it was.
C12_SentenceParses ==
    probe.fn = "sentence_parses" =>
        /\ ~probe.result.ok <=> probe.grammar \notin DOMAIN probe.domain
        /\ ~probe.result.ok => probe.result.illegal = probe.grammar
        /\ probe.result.ok =>
              (probe.result.parses
                  <=> probe.sentence \in probe.domain[probe.grammar])
        /\ colag = probe.domain

\* C12 witness: in one Domain with languages, a grammar that is not a key
\* gave the error.
C12_Witness ==
    /\ probe.fn = "sentence_parses"
    /\ DOMAIN probe.domain # {}
    /\ probe.grammar \in Grammars
    /\ probe.grammar \notin DOMAIN probe.domain
    /\ ~probe.result.ok
    /\ probe.result.illegal = probe.grammar

\* C13: for a parameter i and a grammar identifier below 2^NUM_PARAMS whose
\* parameter i is 0, get_param(set_param(g, i), i) = 1.
C13_SetThenGet ==
    (/\ probe.fn = "set_param"
     /\ probe.grammar < 2 ^ NUM_PARAMS
     /\ probe.before = 0)
        => probe.after = 1

\* C13 witness: a parameter that is not the last was set in a grammar that
\* had another parameter on.
C13_Witness ==
    /\ probe.fn = "set_param"
    /\ probe.grammar \in Grammars \ {0}
    /\ probe.param_num < NUM_PARAMS - 1
    /\ probe.before = 0
    /\ probe.after = 1
    /\ probe.result > probe.grammar

\* C14: with all weights 0.0 random_weighted_grammar returns 0 and with all
\* weights 1.0 the identifier with every parameter bit set, whatever the
\* random draws.
C14_ExtremeWeights ==
    probe.fn = "random_weighted_grammar" =>
        /\ probe.result \in probe.possible
        /\ (\A param \in Params : probe.weights[param] = 0)
              => probe.possible = {0}
        /\ (\A param \in Params : probe.weights[param] = ONE)
              => probe.possible = {AllOnes}

\* C14 witness: all weights 1.0 gave the identifier with every bit set.
C14_Witness ==
    /\ probe.fn = "random_weighted_grammar"
    /\ \A param \in Params : probe.weights[param] = ONE
    /\ probe.result = AllOnes
    /\ AllOnes = 2 ^ NUM_PARAMS - 1

\* C16: a grammar produced by random_weighted_grammar is below 2^NUM_PARAMS,
\* its parameter p is 1 exactly when the coin flip for p succeeded, and
\* set_param was applied only to parameters that were still 0.
C16_BitsAreFlips ==
    probe.fn = "random_weighted_grammar" =>
        /\ probe.result \in probe.possible
        /\ \A g \in probe.possible : g >= 0 /\ g < 2 ^ NUM_PARAMS
        /\ \A param \in Params :
              get_param(probe.result, param) = 1 <=> probe.flips[param]
        /\ probe.fresh

\* C16 witness: the flips of the first and the last parameter succeeded, in
\* a call in which every flip could have gone either way.
C16_Witness ==
    /\ probe.fn = "random_weighted_grammar"
    /\ \A param \in Params : probe.weights[param] = HALF
    /\ probe.flips[0]
    /\ probe.flips[NUM_PARAMS - 1]
    /\ get_param(probe.result, 0) = 1
    /\ probe.result % 2 = 1
    /\ Cardinality(probe.possible) = 2 ^ NUM_PARAMS

\* C17: every trial begins from a fresh hypothesis with all NUM_PARAMS
\* weights 0.5, whatever weights an earlier trial of the worker or another
\* worker ended with.
C17_FreshHypothesisEachRun ==
    \A w \in WorkerIds :
        (workers[w].pc = "loop" /\ workers[w].drawn = 0) =>
            /\ workers[w].hypothesis.kind = "RewardOnlyVL"
            /\ \A param \in Params : workers[w].hypothesis.weights[param] = HALF

\* C17 witness: a worker stands at the start of its second trial with all
\* weights 0.5, its first trial having ended with other weights, while
\* another worker holds other weights too.
C17_Witness ==
    \E w \in WorkerIds : \E v \in WorkerIds \ {w} :
        /\ workers[w].pc = "loop"
        /\ workers[w].drawn = 0
        /\ workers[w].run = 1
        /\ Len(reports[w]) = 1
        /\ reports[w][1].hypothesis.weights # init_weights
        /\ workers[w].hypothesis.weights = init_weights
        /\ workers[v].hypothesis.weights # init_weights

\* A step changes what worker w holds or has printed.
Changed(w) == workers'[w] # workers[w] \/ reports'[w] # reports[w]

\* The hypotheses one learning step of worker w can yield from its own
\* hypothesis, its target and the Domain.
OwnSteps(w) ==
    { consume_sentence(workers[w].hypothesis, colag, s, samples).hypothesis :
        s \in colag[languages[w]],
        samples \in SampleStreams(colag, workers[w].hypothesis.weights) }

C19_ConvergedFlagAndStop ==
    \A w \in WorkerIds :
        /\ \A k \in 1 .. Len(reports[w]) :
              reports[w][k].converged = converged(reports[w][k].hypothesis)
        /\ workers[w].pc = "loop" => ~converged(workers[w].hypothesis)
        /\ workers[w].pc = "ret" =>
              /\ workers[w].converged = converged(workers[w].hypothesis)
              /\ workers[w].converged =>
                    /\ workers[w].consumed = workers[w].drawn
                    /\ workers[w].consumed = workers[w].i

\* C19 witness: a worker has printed a converged Report of a trial that
\* took more than one step, and a Report that is not converged.
C19_Witness ==
    \E w \in WorkerIds :
        /\ Len(reports[w]) = 2
        /\ reports[w][1].converged
        /\ converged(reports[w][1].hypothesis)
        /\ reports[w][1].consumed > 1
        /\ ~reports[w][2].converged
        /\ ~converged(reports[w][2].hypothesis)

\* A trial of worker w is under way.
InTrial(w) == w \in WorkerIds /\ workers[w].pc \in {"loop", "consume"}

\* Worker w has printed the Report of the trial it ran last.
TrialReported(w) ==
    /\ w \in WorkerIds
    /\ workers[w].pc = "run"
    /\ workers[w].run > 0
    /\ Len(reports[w]) = workers[w].run

\* No worker whose target is in the Domain has panicked.
NoErrorSurfaced ==
    \A w \in WorkerIds :
        workers[w].pc = "panicked" => TargetMissing(colag, languages[w])

\* C15: every trial started on a target of the Domain completes and yields
\* a Report, and a sampled grammar that is not in the Domain is never an
\* error in learn_language.
C15_EveryTrialReports ==
    /\ []NoErrorSurfaced
    /\ \A w \in Slots : InTrial(w) ~> TrialReported(w)

\* C15 as amended: the same, unless main has panicked at the join of a
\* worker whose target is not in the Domain, which ends the process.
C15_TrialReportsUnlessAborted ==
    /\ []NoErrorSurfaced
    /\ \A w \in Slots : InTrial(w) ~> (TrialReported(w) \/ mainPc = "panicked")

\* C15 witness: a worker has printed the Report of a trial whose last call
\* of consume_sentence sampled a grammar that is not in the Domain before
\* one that is, and the process lives.
C15_Witness ==
    \E w \in WorkerIds :
        /\ TrialReported(w)
        /\ call[w].resampled
        /\ call[w].grammar \in DOMAIN colag
        /\ ProcessAlive

====
